---- MODULE Spec2Model ----
(***************************************************************************)
(* Workflow execution subsystem of the agent orchestration backend:        *)
(*   - app/utils/dag_resolver.py      DAGResolver (level-grouped Kahn sort) *)
(*   - app/models/workflow.py         Workflow.validate_structure           *)
(*   - app/services/execution_service.py  ExecutionService                  *)
(*   - app/tasks/workflow_execution.py    Celery tasks                      *)
(*                                                                         *)
(* The database is modelled as its committed rows.  Every task run owns a  *)
(* SQLAlchemy session created with expire_on_commit=False                  *)
(* (app/db/session.py:46-52): objects loaded once stay in the session's    *)
(* identity map and are not refreshed by later SELECTs, and a commit       *)
(* writes only the attributes whose value changed with respect to what the *)
(* session holds.  A task run is one step per commit; an API request is    *)
(* one step.                                                               *)
(***************************************************************************)
EXTENDS Integers, Sequences, FiniteSets, TLC

\* ------------------------------------------------------------------ bounds
MaxNodes == 3          \* longest node list drawn for the resolver
MaxConns == 3          \* longest connection list drawn for the resolver
MaxNodeFailures == 2   \* node runs that may raise in one behaviour
MaxExtraJobs == 1      \* retry requests, retry tasks and redeliveries
MaxCancels == 1
MaxApiCalls == 1
MaxBroadcasts == 2     \* broadcast_to_room calls
MaxRows == 3           \* rows of workflow_executions that are listed
MaxClientMsgs == 3     \* messages received on /ws        \* cancel requests

\* node ids the resolver inputs are drawn from
DagIds == {"A", "B", "C"}

\* ---------------------------------------------------------------- helpers
Range(s) == {s[i] : i \in DOMAIN s}

SeqsUpTo(S, n) == UNION {[1..k -> S] : k \in 0..n}

RECURSIVE Flatten(_)
Flatten(ss) == IF ss = <<>> THEN <<>> ELSE Head(ss) \o Flatten(Tail(ss))

\* number of positions of s holding x

\* ------------------------------------------------------------ DAGResolver
\* A workflow is [nodes |-> <<id, ...>>, conns |-> <<[source, target], ...>>].

\* node_map = {node["id"]: node for node in nodes}: the keys, in first-
\* occurrence order (a dict keeps one entry per id).
RECURSIVE NodeMapKeys(_)
NodeMapKeys(nodes) ==
    IF nodes = <<>> THEN <<>>
    ELSE LET rest == NodeMapKeys(SelectSeq(Tail(nodes), LAMBDA x : x # Head(nodes)))
         IN  <<Head(nodes)>> \o rest

\* _build_adjacency_list, read at one key: adjacency.get(u, []), the targets
\* of u's connections in connection order (duplicates kept).
RECURSIVE AdjacencyList(_, _)
AdjacencyList(conns, u) ==
    IF conns = <<>> THEN <<>>
    ELSE IF Head(conns).source = u
         THEN <<Head(conns).target>> \o AdjacencyList(Tail(conns), u)
         ELSE AdjacencyList(Tail(conns), u)

\* _calculate_in_degree: one count per node id, +1 for every entry of every
\* adjacency list that names it (so a repeated edge counts twice).
InDegree(nodes, conns) ==
    [n \in Range(nodes) |-> Cardinality({i \in DOMAIN conns : conns[i].target = n})]

\* The inner loops of topological_sort over one level: every child of every
\* node of the level, in order, has its in-degree reduced and joins the next
\* queue when it reaches zero.
\* (mutant) the `== 0` test of line 104 widened: a child joins the next level
\* one decrement early as well
RECURSIVE ReduceChildrenOneEarly(_, _, _)
ReduceChildrenOneEarly(children, deg, queue) ==
    IF children = <<>> THEN [deg |-> deg, queue |-> queue]
    ELSE LET c == Head(children) IN
         IF c \in DOMAIN deg
         THEN LET d2 == [deg EXCEPT ![c] = @ - 1] IN
              ReduceChildrenOneEarly(Tail(children), d2,
                             IF d2[c] \in {0, 1} THEN Append(queue, c) ELSE queue)
         ELSE ReduceChildrenOneEarly(Tail(children), deg, queue)

RECURSIVE ReduceChildren(_, _, _)
ReduceChildren(children, deg, queue) ==
    IF children = <<>> THEN [deg |-> deg, queue |-> queue]
    ELSE LET c == Head(children) IN
         IF c \in DOMAIN deg
         THEN LET d2 == [deg EXCEPT ![c] = @ - 1] IN
              ReduceChildren(Tail(children), d2,
                             IF d2[c] = 0 THEN Append(queue, c) ELSE queue)
         ELSE ReduceChildren(Tail(children), deg, queue)

LevelChildren(conns, level) ==
    Flatten([i \in DOMAIN level |-> AdjacencyList(conns, level[i])])

RECURSIVE SortLoop(_, _, _, _, _)
SortLoop(conns, queue, deg, levels, processed) ==
    IF queue = <<>> THEN [levels |-> levels, processed |-> processed]
    ELSE LET r == ReduceChildren(LevelChildren(conns, queue), deg, <<>>) IN
         SortLoop(conns, r.queue, r.deg, Append(levels, queue),
                  processed \cup Range(queue))

\* the error raised when the first queue is empty
NoStartError == [ok |-> FALSE, error |-> "No starting nodes found",
                 levels |-> <<>>, unprocessed |-> {}]

CycleError(unprocessed) ==
    [ok |-> FALSE, error |-> "Cycle detected", levels |-> <<>>,
     unprocessed |-> unprocessed]

\* lines 80-81: `if not queue: raise ValueError("No starting nodes found ...")`
EmptyQueueOutcome(nodes, conns) == NoStartError

\* topological_sort: the levels, or the ValueError it raises.
topological_sort(nodes, conns) ==
    LET keys  == NodeMapKeys(nodes)
        deg   == InDegree(nodes, conns)
        queue == SelectSeq(keys, LAMBDA n : deg[n] = 0)
    IN  IF queue = <<>> THEN EmptyQueueOutcome(nodes, conns)
        ELSE LET r == SortLoop(conns, queue, deg, <<>>, {}) IN
             IF Cardinality(r.processed) # Len(nodes)
             THEN CycleError(Range(keys) \ r.processed)
             ELSE [ok |-> TRUE, error |-> "none", levels |-> r.levels,
                   unprocessed |-> {}]

\* get_execution_order: the flat list of (level index, node id).
get_execution_order(levels) ==
    Flatten([i \in DOMAIN levels |->
               [j \in DOMAIN levels[i] |-> [level |-> i - 1, node_id |-> levels[i][j]]]])

\* get_node_dependencies: the sources whose adjacency list names node_id, one
\* entry per source, in adjacency-dict (first connection) order.
get_node_dependencies(conns, node_id) ==
    NodeMapKeys([i \in DOMAIN SelectSeq(conns, LAMBDA c : c.target = node_id) |->
                   SelectSeq(conns, LAMBDA c : c.target = node_id)[i].source])

\* get_node_dependents: adjacency_list.get(node_id, [])
get_node_dependents(conns, node_id) == AdjacencyList(conns, node_id)

\* (mutant) any() in place of all(): one completed parent is enough
can_execute_node_any(conns, node_id, completed) ==
    LET dependencies == get_node_dependencies(conns, node_id)
    IN  \E i \in DOMAIN dependencies : dependencies[i] \in completed

\* can_execute_node: all(dep in completed_nodes for dep in dependencies)
can_execute_node(conns, node_id, completed) ==
    LET dependencies == get_node_dependencies(conns, node_id)
    IN  \A i \in DOMAIN dependencies : dependencies[i] \in completed

\* get_executable_nodes: the keys of node_map, in order, that are not
\* completed and can execute
get_executable_nodes(nodes, conns, completed) ==
    SelectSeq(NodeMapKeys(nodes),
              LAMBDA v : v \notin completed /\ can_execute_node(conns, v, completed))

\* --------------------------------------------- Workflow.validate_structure
RECURSIVE FirstBadConnection(_, _)
FirstBadConnection(conns, node_ids) ==
    IF conns = <<>> THEN "ok"
    ELSE IF Head(conns).source \notin node_ids THEN "Connection source not found"
    ELSE IF Head(conns).target \notin node_ids THEN "Connection target not found"
    ELSE FirstBadConnection(Tail(conns), node_ids)

\* (mutant) the loop over the connections (lines 111-121) left out
validate_structure_no_endpoints(nodes, conns) ==
    IF Len(nodes) # Cardinality(Range(nodes)) THEN "Duplicate node IDs found"
    ELSE "ok"

\* "ok" for (True, None), else the error message
validate_structure(nodes, conns) ==
    IF Len(nodes) # Cardinality(Range(nodes)) THEN "Duplicate node IDs found"
    ELSE FirstBadConnection(conns, Range(nodes))

\* ------------------------------------------------------------------ state
VARIABLES
    wf,                   \* the stored Workflow row: nodes and connections
    requests,             \* max_retries values callers of create_execution send
    sortResult,           \* what the last DAGResolver.topological_sort gave
    workflow_executions,  \* committed rows of table workflow_executions
    node_executions,      \* committed rows of table node_executions
    createResult,         \* what create_execution reported to its caller
    queue,                \* broker: number of waiting messages per job
    workers,              \* Celery worker processes: task position and session
    lastExecEvent,        \* status carried by the last execution_update
    lastEvent,            \* last message published to room execution:<id>
    nodeFailures,         \* node runs that raised so far
    extraJobs,            \* jobs put on the broker besides the first one
    cancels,              \* cancel requests so far
    completedAtCancel,    \* completed child rows when cancel committed, or -1
    cancelResult,         \* what the last cancel_execution reported
    executable,           \* what the last get_executable_nodes call returned
    apiCalls,             \* read and not-found API requests so far
    request,              \* the last such request: endpoint, caller, ids
    response,             \* the response it got
    manager,              \* the API process's ConnectionManager
    sockets,              \* per connection id: what was sent on its WebSocket,
                          \* and whether it was closed
    handlers,             \* per connection id: its websocket_endpoint coroutine
    inflight,             \* the broadcast_to_room calls, in call order, each
                          \* with the connection ids it has still to send to
    clientMsgs,           \* messages clients sent so far
    execution_table,      \* rows of workflow_executions of all users, as far
                          \* as list_executions reads them
    listed                \* the last list_executions call and what it returned

vars == <<wf, requests, sortResult, workflow_executions, node_executions, createResult,
          queue, workers, lastExecEvent, lastEvent, nodeFailures, extraJobs, cancels,
          completedAtCancel, cancelResult, executable, apiCalls, request, response,
          manager, sockets, handlers, inflight, clientMsgs, execution_table, listed>>

\* state of the components an executor or resolver step leaves alone
wsVars == <<manager, sockets, handlers, inflight, clientMsgs>>
listVars == <<execution_table, listed>>
sideVars == <<executable, apiCalls, request, response, wsVars, listVars>>

dbVars == <<workflow_executions, node_executions>>
runVars == <<queue, workers, lastExecEvent, lastEvent, nodeFailures, extraJobs, cancels,
             completedAtCancel, cancelResult>>

\* no message published yet
NoEvent == [type |-> "none", node_id |-> "none", status |-> "none",
            progress_percentage |-> 0, completed_nodes |-> 0]

\* WorkflowExecution.get_progress_percentage, in whole percent
get_progress_percentage(ex) ==
    IF ex.total_nodes = 0 THEN 0 ELSE (ex.completed_nodes * 100) \div ex.total_nodes

\* the message broadcast_execution_update sends to room execution:<id>
ExecutionUpdate(ex, pct) ==
    [type |-> "execution_update", node_id |-> "none", status |-> ex.status,
     progress_percentage |-> pct, completed_nodes |-> ex.completed_nodes]

\* the message broadcast_node_update sends to room execution:<id>
NodeUpdate(n, status) ==
    [type |-> "node_update", node_id |-> n, status |-> status,
     progress_percentage |-> 0, completed_nodes |-> 0]

NotRun == [ok |-> FALSE, error |-> "not run", levels |-> <<>>, unprocessed |-> {}]
NoResult == [ok |-> FALSE, error |-> "not called"]
NoRequest == [endpoint |-> "none", user |-> "none", execution_id |-> 0,
              node_execution_id |-> 0]
NoResponse == [status_code |-> 0, detail |-> "none", body |-> <<>>]
NotListed == [called |-> FALSE, user_id |-> "none", workflow_id |-> "none",
              status |-> "none", limit |-> 0, offset |-> 0, items |-> <<>>]
NotAsked == [asked |-> FALSE, completed |-> {}, nodes |-> <<>>, can |-> <<>>]

\* workflows the resolver and create_execution are exercised on
Connections(ids) == [source : ids, target : ids]
DagWorkflows ==
    [nodes : SeqsUpTo(DagIds, MaxNodes), conns : SeqsUpTo(Connections(DagIds), MaxConns)]

Conn(a, b) == [source |-> a, target |-> b]

\* workflows the executor is exercised on
Linear5 == [nodes |-> <<"A", "B", "C", "D", "E">>,
            conns |-> <<Conn("A", "B"), Conn("B", "C"), Conn("C", "D"), Conn("D", "E")>>]
Diamond == [nodes |-> <<"A", "B", "C", "D">>,
            conns |-> <<Conn("A", "B"), Conn("A", "C"), Conn("B", "D"), Conn("C", "D")>>]
Linear2 == [nodes |-> <<"A", "B">>, conns |-> <<Conn("A", "B")>>]
Linear3 == [nodes |-> <<"A", "B", "C">>, conns |-> <<Conn("A", "B"), Conn("B", "C")>>]
ExecIds == {"A", "B", "C", "D", "E"}

Workers == {"w1", "w2"}

\* the users of the API; the stored workflow, and so every execution created
\* for it, belongs to WorkflowOwner
Users == {"alice", "bob"}
WorkflowOwner == "alice"

\* execution ids a request can name: the id of the row create_execution
\* inserts, and a well-formed uuid that no row has
TheExecutionId == 1
UnknownExecutionId == 2
ExecutionIds == {TheExecutionId, UnknownExecutionId}

\* node_execution ids a request can name: the first node row's, or none's
NodeExecutionIds == {0, 1}

\* connection ids (uuid4, never handed out twice), in the order a set of them
\* is iterated
ConnectionIds == {"c1", "c2"}
ConnectionOrder == <<"c1", "c2">>

\* resources of the database the /ws handler consults: two executions and two
\* workflows of WorkflowOwner, one of the workflows public
ExecutionRows == [E1 |-> [user_id |-> WorkflowOwner], E2 |-> [user_id |-> WorkflowOwner]]
WorkflowRows == [W1 |-> [user_id |-> WorkflowOwner, is_public |-> FALSE],
                 W2 |-> [user_id |-> WorkflowOwner, is_public |-> TRUE]]

\* strings uuid.UUID() accepts
Uuids == {"E1", "E2", "W1", "W2", "alice", "bob"}

\* room ids, as the parts between colons: the rooms broadcasts go to, the
\* users' own rooms, and the room_id values clients send (among them an
\* id without a colon; <<>> is a missing room_id)
ExecutionRooms == {<<"execution", "E1">>, <<"execution", "E2">>}
UserRooms == {<<"user", u>> : u \in Users}
RoomIds == ExecutionRooms \cup UserRooms \cup
           {<<"workflow", "W2">>, <<"garbage">>}
SubscribeRoomIds == (RoomIds \ {<<"user", WorkflowOwner>>}) \cup {<<>>}
UnsubscribeRoomIds == {<<"execution", "E1">>}

NoMetadata == [user_id |-> "none", subscriptions |-> {}]

Endpoints == {"get_execution", "cancel_execution", "get_execution_nodes",
              "get_node_execution", "get_execution_logs"}

\* deployments the executor is exercised in: a workflow, the worker processes
\* that are up (celery --concurrency) and the max_retries values requested
Deployments ==
    {[wf |-> Linear2, up |-> {"w1", "w2"}, max_retries |-> {1}],
     [wf |-> Linear2, up |-> {"w1"}, max_retries |-> {0, 1}],
     [wf |-> Diamond, up |-> {"w1"}, max_retries |-> {0}],
     [wf |-> Linear5, up |-> {"w1"}, max_retries |-> {1}]}

\* str(e) of the exceptions a node's work raises: a timeout, which is of the
\* transient kind
NodeErrors == {"timeout"}

\* raise self.retry(exc=e, countdown=120, max_retries=2)
WorkflowTaskMaxRetries == 2
\* NodeExecution(max_retries=3)
NodeMaxRetries == 3
NodeTaskMaxRetries == 3

\* the messages a broker queue can hold (the retries header may be written
\* one past the budgets); user is the user_id argument of the task
Jobs ==
    [kind : {"execute_workflow"}, retries : 0..(WorkflowTaskMaxRetries + 1),
     node : {"none"}, user : {WorkflowOwner}]
    \cup [kind : {"retry_workflow"}, retries : {0}, node : {"none"},
          user : {WorkflowOwner}]
    \cup [kind : {"retry_node"}, retries : {0}, node : ExecIds, user : Users]
    \cup [kind : {"execute_node"}, retries : 0..(NodeTaskMaxRetries + 1),
          node : ExecIds, user : Users]

ExecuteWorkflowJob(r) ==
    [kind |-> "execute_workflow", retries |-> r, node |-> "none", user |-> WorkflowOwner]

NoRow == [status |-> "none"]

\* output_data of a NodeExecution that has not completed: null
NullOutput == [status |-> "null", input |-> <<>>]
IdleWorker == [pc |-> "idle", job |-> ExecuteWorkflowJob(0), ex |-> NoRow,
               nodes |-> <<>>, order |-> <<>>, idx |-> 0, exc |-> "none",
               input_data |-> <<>>]

MaxRetriesInputs == {0, 1}

OffWorker == [IdleWorker EXCEPT !.pc = "off"]

InitRest(up) ==
    /\ sortResult = NotRun
    /\ workflow_executions = <<>>
    /\ node_executions = <<>>
    /\ createResult = NoResult
    /\ queue = [j \in Jobs |-> 0]
    /\ workers = [w \in Workers |-> IF w \in up THEN IdleWorker ELSE OffWorker]
    /\ lastExecEvent = "none"
    /\ lastEvent = NoEvent
    /\ nodeFailures = 0
    /\ extraJobs = 0
    /\ cancels = 0
    /\ completedAtCancel = -1
    /\ cancelResult = NoResult
    /\ executable = NotAsked
    /\ apiCalls = 0
    /\ request = NoRequest
    /\ response = NoResponse
    /\ manager = [active_connections |-> {},
                  user_connections |-> [u \in Users |-> {}],
                  room_subscriptions |-> [r \in RoomIds |-> {}],
                  user_keys |-> {}, room_keys |-> {},
                  connection_metadata |-> [c \in ConnectionIds |-> NoMetadata]]
    /\ sockets = [c \in ConnectionIds |-> [sent |-> <<>>, closed |-> FALSE]]
    /\ handlers = [c \in ConnectionIds |-> [pc |-> "new", user |-> "none"]]
    /\ inflight = <<>>
    /\ clientMsgs = 0
    /\ execution_table = <<>>
    /\ listed = NotListed

InitDag == wf \in DagWorkflows /\ requests = MaxRetriesInputs /\ InitRest({})

Init == \E d \in Deployments :
            wf = d.wf /\ requests = d.max_retries /\ InitRest(d.up)

\* ---------------------------------------------------------------- actions
\* DAGResolver(nodes, connections).topological_sort() on the stored workflow
Resolve ==
    /\ sortResult = NotRun
    /\ sortResult' = topological_sort(wf.nodes, wf.conns)
    /\ UNCHANGED <<sideVars, wf, requests, workflow_executions, node_executions, createResult>>
    /\ UNCHANGED runVars

\* data.max_retries or 3
DefaultMaxRetries == 3
StoredMaxRetries(given) == IF given = 0 THEN DefaultMaxRetries ELSE given

\* (mutant) the `if not node: continue` of lines 83-85 taken for every node
\* that has a parent
NewNodeExecutionsRootsOnly(order, conns) ==
    [i \in DOMAIN SelectSeq(order, LAMBDA e : e.level = 0) |->
        [node_id |-> order[i].node_id, status |-> "pending",
         execution_order |-> i - 1, retry_count |-> 0, error_message |-> "none",
         parent_node_ids |-> get_node_dependencies(conns, order[i].node_id),
         output_data |-> NullOutput]]

\* the NodeExecution rows of lines 82-118, one per entry of execution_order
NewNodeExecutions(order, conns) ==
    [i \in DOMAIN order |->
        [node_id |-> order[i].node_id, status |-> "pending",
         execution_order |-> i - 1, retry_count |-> 0, error_message |-> "none",
         parent_node_ids |-> get_node_dependencies(conns, order[i].node_id),
         output_data |-> NullOutput]]

NewExecution(nodes, max_retries) ==
    [status |-> "pending", total_nodes |-> Len(nodes), completed_nodes |-> 0,
     failed_nodes |-> 0, retry_count |-> 0,
     max_retries |-> StoredMaxRetries(max_retries),
     error_message |-> "none", execution_log |-> <<>>, user_id |-> WorkflowOwner]

\* what raising before line 66 leaves behind: nothing is added to the session
RejectCreate(error) ==
    /\ createResult' = [ok |-> FALSE, error |-> error]
    /\ UNCHANGED <<workflow_executions, node_executions, queue>>

\* POST /workflows/{id}/executions: ExecutionService.create_execution on the
\* stored workflow, then execute_workflow.delay unless scheduled_at is given
create_execution(max_retries, scheduled) ==
    /\ createResult = NoResult
    /\ LET v == validate_structure(wf.nodes, wf.conns)
           r == topological_sort(wf.nodes, wf.conns)
       IN  IF v # "ok" THEN RejectCreate("Invalid workflow structure")
           ELSE IF ~r.ok THEN RejectCreate("Workflow validation failed")
           ELSE /\ workflow_executions' = <<NewExecution(wf.nodes, max_retries)>>
                /\ node_executions' =
                     NewNodeExecutions(get_execution_order(r.levels), wf.conns)
                /\ createResult' = [ok |-> TRUE, error |-> "none"]
                /\ queue' = IF scheduled THEN queue
                            ELSE [queue EXCEPT ![ExecuteWorkflowJob(0)] = @ + 1]
    /\ UNCHANGED <<sideVars, wf, requests, sortResult, workers, lastExecEvent, lastEvent, nodeFailures,
                   extraJobs, cancels, completedAtCancel, cancelResult>>

NextDag ==
    \/ Resolve
    \/ \E m \in requests : create_execution(m, FALSE)

SpecDag == InitDag /\ [][NextDag]_vars

\* a caller asks DAGResolver(nodes, connections) of the stored workflow which
\* nodes are executable, and whether each id can execute, given completed
AskExecutable(completed) ==
    /\ ~executable.asked
    /\ executable' =
         [asked |-> TRUE, completed |-> completed,
          nodes |-> get_executable_nodes(wf.nodes, wf.conns, completed),
          can |-> [v \in DagIds |-> can_execute_node(wf.conns, v, completed)]]
    /\ UNCHANGED <<wsVars, listVars, apiCalls, request, response, wf, requests, sortResult,
                   createResult>>
    /\ UNCHANGED dbVars
    /\ UNCHANGED runVars

NextReady == \E completed \in SUBSET DagIds : AskExecutable(completed)

SpecReady == InitDag /\ [][NextReady]_vars

\* ------------------------------------------------ sessions and commits
\* AsyncSession.commit for one object: the UPDATE carries the attributes whose
\* value differs from what the session held (old), nothing else; the row keeps
\* whatever another session committed to the other columns.
Flush(row, old, new) ==
    [f \in DOMAIN row |-> IF new[f] # old[f] THEN new[f] ELSE row[f]]

FlushNodes(rows, old, new) ==
    [i \in DOMAIN rows |-> Flush(rows[i], old[i], new[i])]

\* position of the NodeExecution of node n among the rows (scalar_one_or_none)
NodeIndex(rows, n) == CHOOSE i \in DOMAIN rows : rows[i].node_id = n

HasNode(rows, n) == \E i \in DOMAIN rows : rows[i].node_id = n

\* WorkflowExecution.add_log_entry: self.execution_log.append(entry) on the
\* loaded list.  The column is plain JSONB, so the session sees no change of
\* the attribute: the entry is in the object before and after, for the commit.
add_log_entry(ex, message) == [ex EXCEPT !.execution_log = Append(@, message)]

SetWorker(w, rec) == workers' = [workers EXCEPT ![w] = rec]

\* ------------------------------------------------------------ Celery tasks
\* a worker takes a waiting message (prefetch 1) and starts the task; of the
\* idle workers, which are interchangeable, the first one takes it
TakeJob(w, j) ==
    /\ workers[w].pc = "idle"
    /\ w = "w2" => workers["w1"].pc # "idle"
    /\ queue[j] > 0
    /\ queue' = [queue EXCEPT ![j] = @ - 1]
    /\ SetWorker(w, [IdleWorker EXCEPT
                       !.pc = CASE j.kind = "execute_workflow" -> "get_execution"
                                [] j.kind = "retry_workflow" -> "retry_get"
                                [] j.kind = "execute_node" -> "execute_node_get"
                                [] OTHER -> "retry_node_get",
                       !.job = j])
    /\ UNCHANGED <<sideVars, wf, requests, sortResult, createResult, lastExecEvent, lastEvent, nodeFailures,
                   extraJobs, cancels, completedAtCancel, cancelResult>>
    /\ UNCHANGED dbVars

\* self.retry(exc=e, max_retries=n): the same message with retries + 1 while
\* request.retries < n, else the exception is raised for good
Retry(j) == [j EXCEPT !.retries = @ + 1]

\* (mutant) a budget of one retry more for every retrying task
TaskBudgetOneMore(j) ==
    IF j.kind = "execute_workflow" THEN WorkflowTaskMaxRetries + 1
    ELSE IF j.kind = "execute_node" THEN NodeTaskMaxRetries + 1
    ELSE 0

\* max_retries of the task's self.retry call; retry_workflow and retry_node
\* re-raise without retrying
TaskBudget(j) ==
    IF j.kind = "execute_workflow" THEN WorkflowTaskMaxRetries
    ELSE IF j.kind = "execute_node" THEN NodeTaskMaxRetries
    ELSE 0

\* what the task does with an exception of the service call
TaskRaises(w) ==
    /\ queue' = IF workers[w].job.retries < TaskBudget(workers[w].job)
                THEN [queue EXCEPT ![Retry(workers[w].job)] = @ + 1]
                ELSE queue
    /\ SetWorker(w, IdleWorker)

\* execute_workflow, line 268: get_execution loads the parent and (selectin)
\* its node rows into the worker's session
get_execution(w) ==
    /\ workers[w].pc = "get_execution"
    /\ IF workflow_executions = <<>>
       THEN TaskRaises(w)
       ELSE /\ SetWorker(w, [workers[w] EXCEPT !.pc = "start",
                                               !.ex = workflow_executions[1],
                                               !.nodes = node_executions])
            /\ UNCHANGED queue
    /\ UNCHANGED <<sideVars, wf, requests, sortResult, createResult, lastExecEvent, lastEvent, nodeFailures,
                   extraJobs, cancels, completedAtCancel, cancelResult>>
    /\ UNCHANGED dbVars

\* execute_workflow, lines 273-297: status running whatever the loaded status
\* is, commit, broadcast, then the plan is rebuilt from the workflow
start(w) ==
    /\ workers[w].pc = "start"
    /\ LET old == add_log_entry(workers[w].ex, "started")
           new == [old EXCEPT !.status = "running"]
           r   == topological_sort(wf.nodes, wf.conns)
           order == get_execution_order(r.levels)
       IN  /\ workflow_executions' =
                [workflow_executions EXCEPT ![1] = Flush(@, old, new)]
           /\ lastExecEvent' = new.status
           /\ lastEvent' = ExecutionUpdate(new, get_progress_percentage(new))
           /\ SetWorker(w, [workers[w] EXCEPT
                              !.ex = new,
                              !.order = [i \in DOMAIN order |-> order[i].node_id],
                              !.idx = 1,
                              !.pc = IF ~r.ok THEN "fail"
                                     ELSE IF order = <<>> THEN "complete"
                                     ELSE "node_start"])
    /\ UNCHANGED queue
    /\ UNCHANGED <<sideVars, wf, requests, sortResult, createResult, nodeFailures, extraJobs,
                   cancels, completedAtCancel, cancelResult, node_executions>>

\* worker w is inside a run of execute_workflow (entered directly or through
\* retry_workflow_execution)
DrivesWorkflow(w) == workers[w].job.kind \notin {"retry_node", "execute_node"}

\* the node the worker is at: the idx-th of the plan, or the retried node
CurrentNode(w) ==
    IF ~DrivesWorkflow(w) THEN workers[w].job.node
    ELSE workers[w].order[workers[w].idx]

\* the node opens a level of the plan (execute_workflow logs the level then)
FirstOfLevel(n) ==
    \E i \in DOMAIN topological_sort(wf.nodes, wf.conns).levels :
        topological_sort(wf.nodes, wf.conns).levels[i][1] = n

\* _execute_node_inline, lines 407-420: the parent rows are selected by
\* node_id.  A run of execute_workflow has them in its session since it ran
\* them and gets its own objects back; the session of a single-node task holds
\* only the node, so its parents come from the table.  A parent without a row
\* gets no key.
ParentOutputs(w, parent_ids) ==
    [p \in {q \in Range(parent_ids) : HasNode(node_executions, q)} |->
        IF DrivesWorkflow(w)
        THEN workers[w].nodes[NodeIndex(workers[w].nodes, p)].output_data
        ELSE node_executions[NodeIndex(node_executions, p)].output_data]

\* execute_workflow, lines 302-320, and _execute_node_inline, lines 391-394:
\* the level's log entry for the first node of a level, then status running,
\* commit, and (lines 407-420) the outputs of the parents are collected
node_start(w) ==
    /\ workers[w].pc = "node_start"
    /\ LET k   == NodeIndex(workers[w].nodes, CurrentNode(w))
           new == [workers[w].nodes EXCEPT ![k].status = "running"]
           ex  == IF DrivesWorkflow(w) /\ FirstOfLevel(CurrentNode(w))
                  THEN add_log_entry(workers[w].ex, "level") ELSE workers[w].ex
       IN  /\ node_executions' = FlushNodes(node_executions, workers[w].nodes, new)
           /\ SetWorker(w, [workers[w] EXCEPT
                              !.nodes = new, !.ex = ex, !.pc = "node_run",
                              !.input_data = ParentOutputs(w, new[k].parent_node_ids)])
    /\ lastEvent' = NodeUpdate(CurrentNode(w), "running")
    /\ UNCHANGED <<sideVars, wf, requests, sortResult, createResult, lastExecEvent, nodeFailures,
                   extraJobs, cancels, completedAtCancel, cancelResult,
                   workflow_executions, queue>>

\* _execute_node_inline, lines 406-438: the node's work succeeds
node_completed(w) ==
    /\ workers[w].pc = "node_run"
    /\ LET k   == NodeIndex(workers[w].nodes, CurrentNode(w))
           new == [workers[w].nodes EXCEPT
                     ![k].status = "completed",
                     ![k].output_data = [status |-> "completed",
                                         input |-> workers[w].input_data]]
       IN  /\ node_executions' = FlushNodes(node_executions, workers[w].nodes, new)
           /\ SetWorker(w, IF ~DrivesWorkflow(w) THEN IdleWorker
                           ELSE [workers[w] EXCEPT !.nodes = new, !.pc = "progress"])
    /\ lastEvent' = NodeUpdate(CurrentNode(w), "completed")
    /\ UNCHANGED <<sideVars, wf, requests, sortResult, createResult, lastExecEvent, nodeFailures,
                   extraJobs, cancels, completedAtCancel, cancelResult,
                   workflow_executions, queue>>

\* _execute_node_inline, lines 450-469: the node's work raises; the node is
\* failed, the parent's failed_nodes is incremented, and the error goes up
node_raises(w, e) ==
    /\ workers[w].pc = "node_run"
    /\ nodeFailures' = nodeFailures + 1
    /\ LET k     == NodeIndex(workers[w].nodes, CurrentNode(w))
           new   == [workers[w].nodes EXCEPT ![k].status = "failed",
                                             ![k].error_message = e]
           oldEx == workers[w].ex
           newEx == [oldEx EXCEPT !.failed_nodes = @ + 1]
       IN  /\ node_executions' = FlushNodes(node_executions, workers[w].nodes, new)
           /\ workflow_executions' =
                [workflow_executions EXCEPT ![1] = Flush(@, oldEx, newEx)]
           /\ IF ~DrivesWorkflow(w)
              THEN TaskRaises(w)
              ELSE /\ SetWorker(w, [workers[w] EXCEPT !.nodes = new, !.ex = newEx,
                                                      !.exc = e, !.pc = "fail"])
                   /\ UNCHANGED queue
    /\ lastEvent' = NodeUpdate(CurrentNode(w), "failed")
    /\ UNCHANGED <<sideVars, wf, requests, sortResult, createResult, lastExecEvent, extraJobs,
                   cancels, completedAtCancel, cancelResult>>

\* the same, for at most MaxNodeFailures raising runs in a behaviour
node_failed(w, e) == nodeFailures < MaxNodeFailures /\ node_raises(w, e)

\* execute_workflow, lines 323-337: completed_nodes = len(completed_nodes),
\* commit, broadcast with the status the session holds
progress(w) ==
    /\ workers[w].pc = "progress"
    /\ LET old == workers[w].ex
           new == [old EXCEPT !.completed_nodes = workers[w].idx]
       IN  /\ workflow_executions' =
                [workflow_executions EXCEPT ![1] = Flush(@, old, new)]
           /\ lastExecEvent' = new.status
           /\ lastEvent' = ExecutionUpdate(new, get_progress_percentage(new))
           /\ SetWorker(w, [workers[w] EXCEPT
                              !.ex = new,
                              !.idx = @ + 1,
                              !.pc = IF workers[w].idx = Len(workers[w].order)
                                     THEN "complete" ELSE "node_start"])
    /\ UNCHANGED <<sideVars, wf, requests, sortResult, createResult, nodeFailures, extraJobs,
                   cancels, completedAtCancel, cancelResult, node_executions, queue>>

\* execute_workflow, lines 339-359: status completed, commit, broadcast,
\* return.  With task_acks_late the message is acknowledged now; an
\* acknowledgement that is lost leaves the message to be delivered again.
complete(w, ackLost) ==
    /\ workers[w].pc = "complete"
    /\ ackLost => extraJobs < MaxExtraJobs
    /\ LET old == add_log_entry(workers[w].ex, "completed")
           new == [old EXCEPT !.status = "completed"]
       IN  /\ workflow_executions' =
                [workflow_executions EXCEPT ![1] = Flush(@, old, new)]
           /\ lastExecEvent' = new.status
           /\ lastEvent' = ExecutionUpdate(new, 100)
    /\ queue' = IF ackLost THEN [queue EXCEPT ![workers[w].job] = @ + 1] ELSE queue
    /\ extraJobs' = IF ackLost THEN extraJobs + 1 ELSE extraJobs
    /\ SetWorker(w, IdleWorker)
    /\ UNCHANGED <<sideVars, wf, requests, sortResult, createResult, nodeFailures, cancels,
                   completedAtCancel, cancelResult, node_executions>>

\* execute_workflow, lines 361-379: status failed, commit, broadcast, raise
fail(w) ==
    /\ workers[w].pc = "fail"
    /\ LET old == add_log_entry(workers[w].ex, "failed")
           new == [old EXCEPT !.status = "failed", !.error_message = workers[w].exc]
       IN  /\ workflow_executions' =
                [workflow_executions EXCEPT ![1] = Flush(@, old, new)]
           /\ lastExecEvent' = new.status
           /\ lastEvent' = ExecutionUpdate(new, get_progress_percentage(new))
    /\ TaskRaises(w)
    /\ UNCHANGED <<sideVars, wf, requests, sortResult, createResult, nodeFailures, extraJobs,
                   cancels, completedAtCancel, cancelResult, node_executions>>

\* task_reject_on_worker_lost: the worker process dies while a node's work
\* is running and its message goes back to the queue
WorkerLost(w) ==
    /\ workers[w].pc = "node_run"
    /\ extraJobs < MaxExtraJobs
    /\ extraJobs' = extraJobs + 1
    /\ queue' = [queue EXCEPT ![workers[w].job] = @ + 1]
    /\ SetWorker(w, IdleWorker)
    /\ UNCHANGED <<sideVars, wf, requests, sortResult, createResult, lastExecEvent, lastEvent, nodeFailures,
                   cancels, completedAtCancel, cancelResult>>
    /\ UNCHANGED dbVars

\* WorkflowExecution.can_retry / NodeExecution.can_retry
can_retry(row, max_retries) == row.status = "failed" /\ row.retry_count < max_retries

\* POST /executions/{id}/retry: when can_retry holds, execute_workflow.delay
retry_execution ==
    /\ workflow_executions # <<>>
    /\ can_retry(workflow_executions[1], workflow_executions[1].max_retries)
    /\ extraJobs < MaxExtraJobs
    /\ extraJobs' = extraJobs + 1
    /\ queue' = [queue EXCEPT ![ExecuteWorkflowJob(0)] = @ + 1]
    /\ UNCHANGED <<sideVars, wf, requests, sortResult, createResult, workers, lastExecEvent, lastEvent,
                   nodeFailures, cancels, completedAtCancel, cancelResult>>
    /\ UNCHANGED dbVars

\* somebody sends the retry_workflow task for a failed execution
send_retry_workflow ==
    /\ workflow_executions # <<>>
    /\ workflow_executions[1].status = "failed"
    /\ extraJobs < MaxExtraJobs
    /\ extraJobs' = extraJobs + 1
    /\ queue' = [queue EXCEPT ![[kind |-> "retry_workflow", retries |-> 0,
                                 node |-> "none", user |-> WorkflowOwner]] = @ + 1]
    /\ UNCHANGED <<sideVars, wf, requests, sortResult, createResult, workers, lastExecEvent, lastEvent,
                   nodeFailures, cancels, completedAtCancel, cancelResult>>
    /\ UNCHANGED dbVars

\* somebody sends the retry_node task for a failed node
send_retry_node_as(n, u) ==
    /\ HasNode(node_executions, n)
    /\ node_executions[NodeIndex(node_executions, n)].status = "failed"
    /\ extraJobs < MaxExtraJobs
    /\ extraJobs' = extraJobs + 1
    /\ queue' = [queue EXCEPT ![[kind |-> "retry_node", retries |-> 0,
                                 node |-> n, user |-> u]] = @ + 1]
    /\ UNCHANGED <<sideVars, wf, requests, sortResult, createResult, workers, lastExecEvent, lastEvent,
                   nodeFailures, cancels, completedAtCancel, cancelResult>>
    /\ UNCHANGED dbVars

\* the owner does
send_retry_node(n) == send_retry_node_as(n, WorkflowOwner)

\* retry_workflow_execution, line 554: get_execution
retry_get(w) ==
    /\ workers[w].pc = "retry_get"
    /\ IF workflow_executions = <<>>
       THEN TaskRaises(w)
       ELSE /\ SetWorker(w, [workers[w] EXCEPT !.pc = "retry_reset",
                                               !.ex = workflow_executions[1],
                                               !.nodes = node_executions])
            /\ UNCHANGED queue
    /\ UNCHANGED <<sideVars, wf, requests, sortResult, createResult, lastExecEvent, lastEvent, nodeFailures,
                   extraJobs, cancels, completedAtCancel, cancelResult>>
    /\ UNCHANGED dbVars

\* retry_workflow_execution, lines 559-571: raise unless can_retry; else
\* retry_count + 1, status pending, commit, and execute_workflow is called in
\* the same session (its get_execution finds the loaded object)
retry_reset(w) ==
    /\ workers[w].pc = "retry_reset"
    /\ IF ~can_retry(workers[w].ex, workers[w].ex.max_retries)
       THEN /\ TaskRaises(w)
            /\ UNCHANGED workflow_executions
       ELSE LET old == add_log_entry(workers[w].ex, "retry")
                new == [old EXCEPT !.retry_count = @ + 1, !.status = "pending",
                                   !.error_message = "none"]
            IN  /\ workflow_executions' =
                     [workflow_executions EXCEPT ![1] = Flush(@, old, new)]
                /\ SetWorker(w, [workers[w] EXCEPT !.ex = new, !.pc = "start"])
                /\ UNCHANGED queue
    /\ UNCHANGED <<sideVars, wf, requests, sortResult, createResult, lastExecEvent, lastEvent, nodeFailures,
                   extraJobs, cancels, completedAtCancel, cancelResult, node_executions>>

\* retry_node_execution, lines 586-607: load the node and its parent, raise
\* unless the node can_retry
retry_node_get(w) ==
    /\ workers[w].pc = "retry_node_get"
    /\ IF \/ ~HasNode(node_executions, workers[w].job.node)
          \/ ~can_retry(node_executions[NodeIndex(node_executions, workers[w].job.node)],
                        NodeMaxRetries)
       THEN TaskRaises(w)
       ELSE /\ SetWorker(w, [workers[w] EXCEPT !.pc = "retry_node_reset",
                                               !.ex = workflow_executions[1],
                                               !.nodes = node_executions])
            /\ UNCHANGED queue
    /\ UNCHANGED <<sideVars, wf, requests, sortResult, createResult, lastExecEvent, lastEvent, nodeFailures,
                   extraJobs, cancels, completedAtCancel, cancelResult>>
    /\ UNCHANGED dbVars

\* retry_node_execution, lines 609-622: retry_count + 1, status pending,
\* commit, then execute_node runs the node in the same session
retry_node_reset(w) ==
    /\ workers[w].pc = "retry_node_reset"
    /\ LET k   == NodeIndex(workers[w].nodes, workers[w].job.node)
           new == [workers[w].nodes EXCEPT ![k].retry_count = @ + 1,
                                           ![k].status = "pending",
                                           ![k].error_message = "none"]
       IN  /\ node_executions' = FlushNodes(node_executions, workers[w].nodes, new)
           /\ SetWorker(w, [workers[w] EXCEPT !.nodes = new, !.pc = "node_start"])
    /\ UNCHANGED <<sideVars, wf, requests, sortResult, createResult, lastExecEvent, lastEvent, nodeFailures,
                   extraJobs, cancels, completedAtCancel, cancelResult,
                   workflow_executions, queue>>

\* user u sends the execute_node task for a node of the execution
send_execute_node(n, u) ==
    /\ HasNode(node_executions, n)
    /\ extraJobs < MaxExtraJobs
    /\ extraJobs' = extraJobs + 1
    /\ queue' = [queue EXCEPT ![[kind |-> "execute_node", retries |-> 0,
                                 node |-> n, user |-> u]] = @ + 1]
    /\ UNCHANGED <<sideVars, wf, requests, sortResult, createResult, workers,
                   lastExecEvent, lastEvent, nodeFailures, cancels,
                   completedAtCancel, cancelResult>>
    /\ UNCHANGED dbVars

\* execute_node, lines 507-526: load the node and the parent by id, raise if
\* either is missing; _execute_node_inline follows whatever the node's status
execute_node_get(w) ==
    /\ workers[w].pc = "execute_node_get"
    /\ IF ~HasNode(node_executions, workers[w].job.node) \/ workflow_executions = <<>>
       THEN TaskRaises(w)
       ELSE /\ SetWorker(w, [workers[w] EXCEPT !.pc = "node_start",
                                               !.ex = workflow_executions[1],
                                               !.nodes = node_executions])
            /\ UNCHANGED queue
    /\ UNCHANGED <<sideVars, wf, requests, sortResult, createResult, lastExecEvent,
                   lastEvent, nodeFailures, extraJobs, cancels, completedAtCancel,
                   cancelResult>>
    /\ UNCHANGED dbVars

\* ------------------------------------------------------- cancel_execution
\* the rows SELECTed at lines 223-231: the children whose committed status is
\* pending or running
\* (mutant) the status filter of lines 226-227 left out
CancellableNodesAll(rows) == DOMAIN rows

CancellableNodes(rows) == {i \in DOMAIN rows : rows[i].status \in {"pending", "running"}}

\* (mutant) the status test of line 214 left out
CancelAllowedAlways(status) == TRUE

\* line 214: `if execution.status not in ["pending", "running"]: raise`
CancelAllowed(status) == status \in {"pending", "running"}

\* POST /executions/{id}/cancel, lines 209-247, in the request's own session:
\* raise unless pending or running; else the parent and every selected child
\* become cancelled in one commit and the update is broadcast
cancel_execution ==
    /\ workflow_executions # <<>>
    /\ cancels < MaxCancels
    /\ cancels' = cancels + 1
    /\ IF ~CancelAllowed(workflow_executions[1].status)
       THEN /\ cancelResult' = [ok |-> FALSE, error |-> "Cannot cancel execution"]
            /\ UNCHANGED <<workflow_executions, node_executions, lastExecEvent, lastEvent,
                           completedAtCancel>>
       ELSE /\ cancelResult' = [ok |-> TRUE, error |-> "none"]
            /\ workflow_executions' =
                 [workflow_executions EXCEPT ![1].status = "cancelled"]
            /\ node_executions' =
                 [i \in DOMAIN node_executions |->
                    IF i \in CancellableNodes(node_executions)
                    THEN [node_executions[i] EXCEPT !.status = "cancelled"]
                    ELSE node_executions[i]]
            /\ lastExecEvent' = "cancelled"
            /\ lastEvent' = ExecutionUpdate(workflow_executions'[1],
                                         get_progress_percentage(workflow_executions'[1]))
            /\ completedAtCancel' =
                 Cardinality({i \in DOMAIN node_executions :
                                node_executions[i].status = "completed"})
    /\ UNCHANGED <<sideVars, wf, requests, sortResult, createResult, queue, workers,
                   nodeFailures, extraJobs>>

\* ------------------------------------------------------------ API reads
\* (mutant) the user_id condition of the WHERE clause left out
get_execution_any_user(execution_id, user_id) ==
    IF workflow_executions # <<>> /\ execution_id = TheExecutionId
    THEN workflow_executions[1] ELSE NoRow

\* ExecutionService.get_execution(execution_id, user_id), lines 128-151:
\* the row with that id and that user_id, or None
ExecutionService_get_execution(execution_id, user_id) ==
    IF /\ workflow_executions # <<>>
       /\ execution_id = TheExecutionId
       /\ workflow_executions[1].user_id = user_id
    THEN workflow_executions[1] ELSE NoRow

NotFound(detail) == [status_code |-> 404, detail |-> detail, body |-> <<>>]
Ok(body) == [status_code |-> 200, detail |-> "none", body |-> body]

\* what the endpoint answers, api/v1/executions.py: 404 when get_execution
\* gives None, else the row, its node rows, one node row, or its log
Respond(endpoint, user, execution_id, node_execution_id) ==
    LET execution == ExecutionService_get_execution(execution_id, user)
    IN  IF execution = NoRow
        THEN NotFound(IF endpoint = "cancel_execution"
                      THEN "Execution not found or access denied"
                      ELSE "Execution not found")
        ELSE IF endpoint = "get_execution_nodes" THEN Ok(node_executions)
        ELSE IF endpoint = "get_node_execution"
        THEN IF node_execution_id \in DOMAIN node_executions
             THEN Ok(<<node_executions[node_execution_id]>>)
             ELSE NotFound("Node execution not found")
        ELSE IF endpoint = "get_execution_logs" THEN Ok(execution.execution_log)
        ELSE Ok(<<execution>>)

\* GET /executions/{id}, /nodes, /nodes/{node_id}, /logs for any caller, and
\* POST /executions/{id}/cancel when get_execution gives None (the rest of
\* that handler is cancel_execution above): nothing is written
api_request(endpoint, user, execution_id, node_execution_id) ==
    /\ apiCalls < MaxApiCalls
    /\ endpoint = "cancel_execution" =>
          ExecutionService_get_execution(execution_id, user) = NoRow
    /\ endpoint # "get_node_execution" => node_execution_id = 0
    /\ apiCalls' = apiCalls + 1
    /\ request' = [endpoint |-> endpoint, user |-> user,
                   execution_id |-> execution_id,
                   node_execution_id |-> node_execution_id]
    /\ response' = Respond(endpoint, user, execution_id, node_execution_id)
    /\ UNCHANGED <<wsVars, listVars, executable, wf, requests, sortResult, createResult>>
    /\ UNCHANGED dbVars
    /\ UNCHANGED runVars

\* ------------------------------------------------------------------- Next
Next ==
    \/ \E m \in requests, sch \in BOOLEAN : create_execution(m, sch)
    \/ \E w \in Workers, j \in Jobs : TakeJob(w, j)
    \/ \E w \in Workers : get_execution(w)
    \/ \E w \in Workers : start(w)
    \/ \E w \in Workers : node_start(w)
    \/ \E w \in Workers : node_completed(w)
    \/ \E w \in Workers, e \in NodeErrors : node_failed(w, e)
    \/ \E w \in Workers : progress(w)
    \/ \E w \in Workers, ackLost \in BOOLEAN : complete(w, ackLost)
    \/ \E w \in Workers : fail(w)
    \/ \E w \in Workers : WorkerLost(w)
    \/ retry_execution
    \/ send_retry_workflow
    \/ \E n \in ExecIds : send_retry_node(n)
    \/ \E w \in Workers : retry_get(w)
    \/ \E w \in Workers : retry_reset(w)
    \/ \E w \in Workers : retry_node_get(w)
    \/ \E w \in Workers : retry_node_reset(w)
    \/ cancel_execution

Spec == Init /\ [][Next]_vars

\* one delivery of the run with no fault, the owner's cancel, and API
\* requests from the owner and from another user
NextAccess ==
    \/ \E m \in requests, sch \in BOOLEAN : create_execution(m, sch)
    \/ \E w \in Workers, j \in Jobs : TakeJob(w, j)
    \/ \E w \in Workers : get_execution(w)
    \/ \E w \in Workers : start(w)
    \/ \E w \in Workers : node_start(w)
    \/ \E w \in Workers : node_completed(w)
    \/ \E w \in Workers : progress(w)
    \/ \E w \in Workers : complete(w, FALSE)
    \/ cancel_execution
    \/ \E endpoint \in Endpoints, user \in Users, execution_id \in ExecutionIds,
          node_execution_id \in NodeExecutionIds :
            api_request(endpoint, user, execution_id, node_execution_id)

SpecAccess == Init /\ [][NextAccess]_vars

\* ------------------------------------------------ ConnectionManager, /ws
\* user_connections and room_subscriptions are defaultdicts: user_keys and
\* room_keys are the keys they hold; a key that is not held has the set {}.
\* The operators below take and return the pair [m |-> manager, s |-> sockets].

\* messages the server sends; seq numbers the broadcast_to_room calls
Message(type, room_id, seq) == [type |-> type, room_id |-> room_id, seq |-> seq]

\* (mutant) disconnect without the loop over the connection's subscriptions
disconnect_keeping_rooms(S, connection_id) ==
    IF connection_id \notin S.m.active_connections THEN S
    ELSE LET user_id == S.m.connection_metadata[connection_id].user_id
         IN  [m |-> [active_connections |-> S.m.active_connections \ {connection_id},
                     user_connections |->
                        [S.m.user_connections EXCEPT ![user_id] = @ \ {connection_id}],
                     room_subscriptions |-> S.m.room_subscriptions,
                     user_keys |-> S.m.user_keys, room_keys |-> S.m.room_keys,
                     connection_metadata |->
                        [S.m.connection_metadata EXCEPT ![connection_id] = NoMetadata]],
              s |-> [S.s EXCEPT ![connection_id].closed = TRUE]]

\* ConnectionManager.disconnect: return if the id is not active; else drop it
\* from active_connections, from its user's set, from the rooms its metadata
\* lists, drop the metadata, close the WebSocket
disconnect(S, connection_id) ==
    IF connection_id \notin S.m.active_connections THEN S
    ELSE LET metadata == S.m.connection_metadata[connection_id]
         IN  [m |-> [active_connections |-> S.m.active_connections \ {connection_id},
                     user_connections |->
                        [S.m.user_connections EXCEPT
                            ![metadata.user_id] = @ \ {connection_id}],
                     room_subscriptions |->
                        [r \in RoomIds |->
                           IF r \in metadata.subscriptions
                           THEN S.m.room_subscriptions[r] \ {connection_id}
                           ELSE S.m.room_subscriptions[r]],
                     user_keys |->
                        IF /\ metadata.user_id \in S.m.user_keys
                           /\ S.m.user_connections[metadata.user_id] \ {connection_id} = {}
                        THEN S.m.user_keys \ {metadata.user_id}
                        ELSE S.m.user_keys,
                     room_keys |->
                        (S.m.room_keys \ metadata.subscriptions)
                        \cup {r \in metadata.subscriptions :
                                S.m.room_subscriptions[r] \ {connection_id} # {}},
                     connection_metadata |->
                        [S.m.connection_metadata EXCEPT ![connection_id] = NoMetadata]],
              s |-> [S.s EXCEPT ![connection_id].closed = TRUE]]

\* (mutant) a send that raises is only logged
send_personal_message_logging(S, connection_id, message, raises) ==
    IF connection_id \notin S.m.active_connections \/ raises THEN S
    ELSE [S EXCEPT !.s[connection_id].sent = Append(@, message)]

\* ConnectionManager.send_personal_message: nothing for an id that is not
\* active; else send_json, and disconnect when send_json raises
send_personal_message(S, connection_id, message, raises) ==
    IF connection_id \notin S.m.active_connections THEN S
    ELSE IF raises THEN disconnect(S, connection_id)
    ELSE [S EXCEPT !.s[connection_id].sent = Append(@, message)]

\* ConnectionManager.connect
connect(S, connection_id, user_id, raises) ==
    LET T == [S EXCEPT
                !.m.active_connections = @ \cup {connection_id},
                !.m.user_connections[user_id] = @ \cup {connection_id},
                !.m.user_keys = @ \cup {user_id},
                !.m.connection_metadata[connection_id] =
                    [user_id |-> user_id, subscriptions |-> {}]]
    IN  send_personal_message(T, connection_id, Message("connected", <<>>, 0), raises)

\* ConnectionManager.subscribe_to_room
subscribe_to_room(S, connection_id, room_id, raises) ==
    IF connection_id \notin S.m.active_connections THEN S
    ELSE LET T == [S EXCEPT
                     !.m.room_subscriptions[room_id] = @ \cup {connection_id},
                     !.m.room_keys = @ \cup {room_id},
                     !.m.connection_metadata[connection_id].subscriptions =
                         @ \cup {room_id}]
         IN  send_personal_message(T, connection_id,
                                   Message("subscribed", room_id, 0), raises)

\* (mutant) unsubscribe_from_room that leaves the key of an emptied room
unsubscribe_from_room_keeping_key(S, connection_id, room_id, raises) ==
    LET T == [S EXCEPT
                !.m.room_subscriptions[room_id] = @ \ {connection_id},
                !.m.connection_metadata[connection_id].subscriptions = @ \ {room_id}]
    IN  send_personal_message(T, connection_id,
                              Message("unsubscribed", room_id, 0), raises)

\* ConnectionManager.unsubscribe_from_room: the id is discarded from a room
\* that has a key, and the key is deleted when the set is left empty
unsubscribe_from_room(S, connection_id, room_id, raises) ==
    LET T == [S EXCEPT
                !.m.room_subscriptions[room_id] = @ \ {connection_id},
                !.m.room_keys =
                    IF S.m.room_subscriptions[room_id] \ {connection_id} = {}
                    THEN @ \ {room_id} ELSE @,
                !.m.connection_metadata[connection_id].subscriptions = @ \ {room_id}]
    IN  send_personal_message(T, connection_id,
                              Message("unsubscribed", room_id, 0), raises)

\* WorkflowService.get_workflow(id, user_id) is not None: the row exists and
\* is the user's or is public
get_workflow(resource_id, user) ==
    /\ resource_id \in DOMAIN WorkflowRows
    /\ (WorkflowRows[resource_id].user_id = user \/ WorkflowRows[resource_id].is_public)

\* _validate_room_access: split(":", 1) must give two parts; the user's own
\* room; an execution get_execution finds for the user; a workflow
\* get_workflow finds for the user; everything else, and every exception
\* (an id uuid.UUID rejects), is False
validate_room_access(room_id, user) ==
    IF Len(room_id) # 2 THEN FALSE
    ELSE LET room_type == room_id[1]
             resource_id == room_id[2]
         IN  IF room_type = "user" /\ resource_id = user THEN TRUE
             ELSE IF room_type = "execution"
             THEN /\ resource_id \in Uuids
                  /\ resource_id \in DOMAIN ExecutionRows
                  /\ ExecutionRows[resource_id].user_id = user
             ELSE IF room_type = "workflow"
             THEN resource_id \in Uuids /\ get_workflow(resource_id, user)
             ELSE FALSE

SetManager(S) == manager' = S.m /\ sockets' = S.s

Now == [m |-> manager, s |-> sockets]

coreVars == <<wf, requests, sortResult, createResult, dbVars, runVars,
              executable, apiCalls, request, response, listVars>>

\* websocket_endpoint, lines 50-70: the token's user is authenticated, the
\* connection is registered and subscribed to the user's own room; failAt
\* says which of the two confirmations (if any) cannot be sent
ws_connect(c, user, failAt) ==
    /\ handlers[c].pc = "new"
    /\ LET S1 == connect(Now, c, user, failAt = 1)
           S2 == subscribe_to_room(S1, c, <<"user", user>>, failAt = 2)
       IN  SetManager(S2)
    /\ handlers' = [handlers EXCEPT ![c] = [pc |-> "loop", user |-> user]]
    /\ UNCHANGED <<inflight, clientMsgs>>
    /\ UNCHANGED coreVars

\* websocket_endpoint, lines 81-96: {"type": "subscribe", "room_id": ...};
\* room_id <<>> stands for a missing or empty room_id
ws_subscribe(c, room_id, raises) ==
    /\ handlers[c].pc = "loop"
    /\ clientMsgs < MaxClientMsgs
    /\ clientMsgs' = clientMsgs + 1
    /\ SetManager(IF room_id = <<>> THEN Now
                  ELSE IF validate_room_access(room_id, handlers[c].user)
                  THEN subscribe_to_room(Now, c, room_id, raises)
                  ELSE send_personal_message(Now, c, Message("error", room_id, 0),
                                             raises))
    /\ UNCHANGED <<handlers, inflight>>
    /\ UNCHANGED coreVars

\* websocket_endpoint, lines 98-102: {"type": "unsubscribe", "room_id": ...}
ws_unsubscribe(c, room_id, raises) ==
    /\ handlers[c].pc = "loop"
    /\ clientMsgs < MaxClientMsgs
    /\ clientMsgs' = clientMsgs + 1
    /\ SetManager(unsubscribe_from_room(Now, c, room_id, raises))
    /\ UNCHANGED <<handlers, inflight>>
    /\ UNCHANGED coreVars

\* websocket_endpoint, lines 104-126: a ping (pong), an unknown type or
\* text that is no JSON (error)
ws_other(c, kind, raises) ==
    /\ handlers[c].pc = "loop"
    /\ clientMsgs < MaxClientMsgs
    /\ clientMsgs' = clientMsgs + 1
    /\ SetManager(send_personal_message(
                     Now, c, Message(IF kind = "ping" THEN "pong" ELSE "error", <<>>, 0),
                     raises))
    /\ UNCHANGED <<handlers, inflight>>
    /\ UNCHANGED coreVars

\* websocket_endpoint, lines 128-137: receive raises (the client went away
\* or the socket was closed), the finally block disconnects
ws_close(c) ==
    /\ handlers[c].pc = "loop"
    /\ SetManager(disconnect(Now, c))
    /\ handlers' = [handlers EXCEPT ![c].pc = "done"]
    /\ UNCHANGED <<inflight, clientMsgs>>
    /\ UNCHANGED coreVars

\* the ids of a set, in iteration order
RECURSIVE InOrder(_, _)
InOrder(order, ids) ==
    IF order = <<>> THEN <<>>
    ELSE IF Head(order) \in ids THEN <<Head(order)>> \o InOrder(Tail(order), ids)
    ELSE InOrder(Tail(order), ids)

\* broadcast_to_room, called by broadcast_execution_update: the subscriber
\* set is copied and, with no await in between, the message is handed to the
\* first connection id of the copy (send_json writes, then waits for the
\* transport to drain); the other sends follow in broadcast_send
broadcast_to_room(room_id, raises) ==
    /\ Len(inflight) < MaxBroadcasts
    /\ LET connection_ids == InOrder(ConnectionOrder, manager.room_subscriptions[room_id])
           seq == Len(inflight) + 1
       IN  IF connection_ids = <<>>
           THEN /\ inflight' = Append(inflight, [room_id |-> room_id, todo |-> <<>>])
                /\ UNCHANGED <<manager, sockets>>
           ELSE /\ inflight' = Append(inflight, [room_id |-> room_id,
                                                 todo |-> Tail(connection_ids)])
                /\ SetManager(send_personal_message(
                                 Now, Head(connection_ids),
                                 Message("broadcast", room_id, seq), raises))
    /\ UNCHANGED <<handlers, clientMsgs>>
    /\ UNCHANGED coreVars

\* broadcast_to_room, lines 227-228: `await self.send_personal_message(...)`
\* for the next connection id of the copy; while a send waits, the event loop
\* runs any other coroutine
broadcast_send(i, raises) ==
    /\ i \in DOMAIN inflight
    /\ inflight[i].todo # <<>>
    /\ SetManager(send_personal_message(
                     Now, Head(inflight[i].todo),
                     Message("broadcast", inflight[i].room_id, i), raises))
    /\ inflight' = [inflight EXCEPT ![i].todo = Tail(@)]
    /\ UNCHANGED <<handlers, clientMsgs>>
    /\ UNCHANGED coreVars

InitWs == wf = Linear2 /\ requests = {1} /\ InitRest({"w1"})

NextWs ==
    \/ \E c \in ConnectionIds, user \in Users, failAt \in 0..2 : ws_connect(c, user, failAt)
    \/ \E c \in ConnectionIds, room_id \in SubscribeRoomIds, raises \in BOOLEAN :
          ws_subscribe(c, room_id, raises)
    \/ \E c \in ConnectionIds, room_id \in UnsubscribeRoomIds, raises \in BOOLEAN :
          ws_unsubscribe(c, room_id, raises)
    \/ \E c \in ConnectionIds, kind \in {"ping"},
          raises \in BOOLEAN : ws_other(c, kind, raises)
    \/ \E c \in ConnectionIds : ws_close(c)
    \/ \E room_id \in ExecutionRooms, raises \in BOOLEAN :
          broadcast_to_room(room_id, raises)
    \/ \E i \in 1..MaxBroadcasts, raises \in BOOLEAN : broadcast_send(i, raises)

SpecWs == InitWs /\ [][NextWs]_vars

\* the broker's retries: runs whose nodes may raise any number of times, and
\* execute_node tasks
NextRetry ==
    \/ \E m \in requests, sch \in BOOLEAN : create_execution(m, sch)
    \/ \E w \in Workers, j \in Jobs : TakeJob(w, j)
    \/ \E w \in Workers : get_execution(w)
    \/ \E w \in Workers : start(w)
    \/ \E w \in Workers : node_start(w)
    \/ \E w \in Workers : node_completed(w)
    \/ \E w \in Workers, e \in NodeErrors : node_raises(w, e)
    \/ \E w \in Workers : progress(w)
    \/ \E w \in Workers, ackLost \in BOOLEAN : complete(w, ackLost)
    \/ \E w \in Workers : fail(w)
    \/ \E n \in ExecIds : send_execute_node(n, WorkflowOwner)
    \/ \E w \in Workers : execute_node_get(w)

\* one worker and the two-node chain
InitRetry == wf = Linear2 /\ requests = {1} /\ InitRest({"w1"})

SpecRetry == InitRetry /\ [][NextRetry]_vars

\* workers keep taking and running what the broker holds
SpecRetryFair == SpecRetry /\ WF_vars(NextRetry)

\* runs of one execution with retry_node and execute_node tasks sent with
\* the user_id of the owner or of another user
NextForeign ==
    \/ \E m \in requests : create_execution(m, FALSE)
    \/ \E w \in Workers, j \in Jobs : TakeJob(w, j)
    \/ \E w \in Workers : get_execution(w)
    \/ \E w \in Workers : start(w)
    \/ \E w \in Workers : node_start(w)
    \/ \E w \in Workers : node_completed(w)
    \/ \E w \in Workers, e \in NodeErrors : node_failed(w, e)
    \/ \E w \in Workers : progress(w)
    \/ \E w \in Workers : complete(w, FALSE)
    \/ \E w \in Workers : fail(w)
    \/ \E n \in ExecIds, u \in Users : send_retry_node_as(n, u)
    \/ \E n \in ExecIds, u \in Users : send_execute_node(n, u)
    \/ \E w \in Workers : retry_node_get(w)
    \/ \E w \in Workers : retry_node_reset(w)
    \/ \E w \in Workers : execute_node_get(w)

SpecForeign == InitRetry /\ [][NextForeign]_vars

\* a run of the three-node chain on two workers, with execute_node tasks sent
\* for single nodes meanwhile
InitOutput == wf = Linear3 /\ requests = {1} /\ InitRest({"w1", "w2"})

NextOutput ==
    \/ \E m \in requests : create_execution(m, FALSE)
    \/ \E w \in Workers, j \in Jobs : TakeJob(w, j)
    \/ \E w \in Workers : get_execution(w)
    \/ \E w \in Workers : start(w)
    \/ \E w \in Workers : node_start(w)
    \/ \E w \in Workers : node_completed(w)
    \/ \E w \in Workers : progress(w)
    \/ \E w \in Workers : complete(w, FALSE)
    \/ \E n \in ExecIds : send_execute_node(n, WorkflowOwner)
    \/ \E w \in Workers : execute_node_get(w)

SpecOutput == InitOutput /\ [][NextOutput]_vars

\* ------------------------------------------------------ list_executions

\* values of the columns list_executions filters and orders by; "none" is an
\* absent query parameter
ListWorkflowIds == {"W1", "W2"}
ListStatuses == {"completed", "failed"}
ListLimits == {1, 100}
ListOffsets == {0, 1}

\* a row is committed for some user; created_at is utcnow() of the insert,
\* which may equal the previous row's
InsertExecution(u, w, st, tick) ==
    /\ Len(execution_table) < MaxRows
    /\ execution_table' = Append(execution_table,
            [id |-> Len(execution_table) + 1, user_id |-> u, workflow_id |-> w,
             status |-> st,
             created_at |-> IF execution_table = <<>> THEN 1
                            ELSE execution_table[Len(execution_table)].created_at + tick])
    /\ UNCHANGED <<listed, wf, requests, sortResult, createResult, executable,
                   apiCalls, request, response, wsVars>>
    /\ UNCHANGED dbVars
    /\ UNCHANGED runVars

\* (mutant) the WHERE clause without its user condition
InQueryNoUser(row, u, w, st) ==
    /\ w # "none" => row.workflow_id = w
    /\ st # "none" => row.status = st

\* list_executions, lines 176-182: WHERE user_id = :user, AND workflow_id = :w
\* if given, AND status = :st if given
InQuery(row, u, w, st) ==
    /\ row.user_id = u
    /\ w # "none" => row.workflow_id = w
    /\ st # "none" => row.status = st

\* ORDER BY created_at DESC: rows with equal created_at come in any order
OrderedByCreatedDesc(items) ==
    \A i, j \in DOMAIN items : i < j => items[i].created_at >= items[j].created_at

\* LIMIT :limit OFFSET :offset
Page(items, limit, offset) ==
    IF offset >= Len(items) THEN <<>>
    ELSE SubSeq(items, offset + 1,
                IF offset + limit < Len(items) THEN offset + limit ELSE Len(items))

\* list_executions, lines 153-194
list_executions(u, w, st, limit, offset) ==
    /\ LET hit == {i \in DOMAIN execution_table :
                        InQuery(execution_table[i], u, w, st)}
       IN  \E ord \in [1..Cardinality(hit) -> hit] :
              /\ \A i, j \in DOMAIN ord : i # j => ord[i] # ord[j]
              /\ OrderedByCreatedDesc([i \in DOMAIN ord |-> execution_table[ord[i]]])
              /\ listed' = [called |-> TRUE, user_id |-> u, workflow_id |-> w,
                            status |-> st, limit |-> limit, offset |-> offset,
                            items |-> Page([i \in DOMAIN ord |-> execution_table[ord[i]]],
                                           limit, offset)]
    /\ UNCHANGED <<execution_table, wf, requests, sortResult, createResult, executable,
                   apiCalls, request, response, wsVars>>
    /\ UNCHANGED dbVars
    /\ UNCHANGED runVars

NextList ==
    \/ \E u \in Users, w \in ListWorkflowIds, st \in ListStatuses, tick \in {0, 1} :
          InsertExecution(u, w, st, tick)
    \/ \E w \in {"W1", "none"}, st \in {"completed", "none"}, limit \in ListLimits,
          offset \in ListOffsets :
          list_executions(WorkflowOwner, w, st, limit, offset)

InitList == wf = Linear2 /\ requests = {1} /\ InitRest({"w1"})

SpecList == InitList /\ [][NextList]_vars

\* ------------------------------------------------------- graph vocabulary
\* (used by the properties only)
Edges(w) == {<<w.conns[i].source, w.conns[i].target>> : i \in DOMAIN w.conns}

Successors(w, S) == {e[2] : e \in {d \in Edges(w) : d[1] \in S}}

RECURSIVE Closure(_, _)
Closure(w, S) ==
    LET T == S \cup Successors(w, S) IN IF T = S THEN S ELSE Closure(w, T)

\* the nodes reachable from n by one or more edges
Descendants(w, n) == Closure(w, Successors(w, {n}))

OnCycle(w, n) == n \in Descendants(w, n)

HasCycle(w) == \E n \in Range(w.nodes) : OnCycle(w, n)

OnOrDownstreamOfCycle(w) ==
    {n \in Range(w.nodes) :
        \E m \in Range(w.nodes) : OnCycle(w, m) /\ (n = m \/ n \in Descendants(w, m))}

WellFormed(w) ==
    /\ Len(w.nodes) = Cardinality(Range(w.nodes))
    /\ \A e \in Edges(w) : e[1] \in Range(w.nodes) /\ e[2] \in Range(w.nodes)

ValidDag(w) == WellFormed(w) /\ ~HasCycle(w)

HasRepeatedEdge(w) == Len(w.conns) # Cardinality(Edges(w))

\* the indexes of the levels that hold n
LevelsOf(levels, n) == {i \in DOMAIN levels : n \in Range(levels[i])}

\* ------------------------------------------------------------- properties

C7_CycleReported ==
    (sortResult # NotRun /\ WellFormed(wf) /\ HasCycle(wf)) =>
        /\ sortResult.error = "Cycle detected"
        /\ sortResult.unprocessed = OnOrDownstreamOfCycle(wf)

\* C8: a create_execution that meets a duplicate node id, a connection whose
\* endpoint is no node, or a cycle reports an error, and after any reported
\* error neither table holds a row.
C8_RejectedCreateWritesNothing ==
    (createResult # NoResult) =>
        /\ (~WellFormed(wf) \/ HasCycle(wf)) => ~createResult.ok
        /\ ~createResult.ok => workflow_executions = <<>> /\ node_executions = <<>>

C8_Witness ==
    /\ createResult # NoResult
    /\ ~createResult.ok
    /\ WellFormed(wf)
    /\ HasCycle(wf)
    /\ Len(wf.nodes) = 3

\* C9: for a well-formed acyclic workflow the returned levels hold every node
\* id exactly once and nothing else, and a successful create_execution leaves
\* exactly one NodeExecution per node of the workflow.
C9_RoundTrip ==
    ValidDag(wf) =>
        /\ sortResult.ok =>
             /\ Range(Flatten(sortResult.levels)) = Range(wf.nodes)
             /\ Len(Flatten(sortResult.levels)) = Len(wf.nodes)
        /\ (createResult # NoResult /\ wf.nodes # <<>>) => createResult.ok
        /\ createResult.ok =>
             /\ {node_executions[i].node_id : i \in DOMAIN node_executions}
                  = Range(wf.nodes)
             /\ Len(node_executions) = Len(wf.nodes)
             /\ Len(workflow_executions) = 1
             /\ workflow_executions[1].total_nodes = Len(wf.nodes)

C9_Witness ==
    /\ sortResult.ok
    /\ createResult.ok
    /\ Len(wf.nodes) = 3
    /\ Len(sortResult.levels) = 2
    /\ Len(node_executions) = 3

\* ------------------------------------------------- executor vocabulary
Exists == workflow_executions # <<>>

Execution == workflow_executions[1]

NodeStatus(rows, n) == rows[NodeIndex(rows, n)].status

Quiescent ==
    /\ \A w \in Workers : workers[w].pc \in {"idle", "off"}
    /\ \A j \in Jobs : queue[j] = 0

\* the transition table of the execution status
LegalTransitions ==
    {<<"pending", "running">>, <<"pending", "cancelled">>,
     <<"running", "completed">>, <<"running", "failed">>,
     <<"running", "cancelled">>, <<"failed", "pending">>}

\* C1: every change of the execution's status is one of the six transitions of
\* the table; completed and cancelled are never left.
C1_OnlyLegalTransitions ==
    [][Exists =>
         \/ workflow_executions'[1].status = Execution.status
         \/ <<Execution.status, workflow_executions'[1].status>> \in LegalTransitions]_vars

\* C2: an execute_workflow that finds the execution in a status an earlier
\* delivery of the job has left (running, completed or failed) is rejected at
\* the pending->running step: the task ends there and no row changes.
C2_SecondDeliveryRejected ==
    [][\A w \in Workers :
         (/\ workers[w].pc = "start"
          /\ workers[w].job.kind = "execute_workflow"
          /\ workers[w].ex.status \in {"running", "completed", "failed"}
          /\ workers'[w] # workers[w])
         => (workers'[w].pc = "idle" /\ UNCHANGED dbVars)]_vars

\* C3: once cancel_execution has committed cancelled, a run of
\* execute_workflow sets no further NodeExecution to running.
C3_NoDispatchAfterCancel ==
    [][\A w \in Workers :
         (/\ completedAtCancel >= 0
          /\ DrivesWorkflow(w)
          /\ workers[w].pc = "node_start")
         => workers'[w].pc # "node_run"]_vars

\* C4: five-node linear workflow, cancel committed when exactly nodes A and B
\* were completed: from then on the execution is cancelled and C, D, E are
\* cancelled, and when all work has ended completed_nodes is 2 and the last
\* execution_update carried cancelled.
C4_CancelMidFlightSticks ==
    (wf = Linear5 /\ completedAtCancel = 2) =>
        /\ Execution.status = "cancelled"
        /\ \A n \in {"C", "D", "E"} : NodeStatus(node_executions, n) = "cancelled"
        /\ Quiescent => Execution.completed_nodes = 2 /\ lastExecEvent = "cancelled"

\* C5: when a run of execute_workflow sets a NodeExecution to running, every
\* parent of that node is completed (no retry_node task is at work).
C5_ParentsCompletedAtStart ==
    [][\A w \in Workers :
         (/\ \A v \in Workers : DrivesWorkflow(v)
          /\ workers[w].pc = "node_start"
          /\ workers'[w].pc = "node_run")
         => LET k == NodeIndex(node_executions, CurrentNode(w)) IN
            \A p \in Range(node_executions[k].parent_node_ids) :
               NodeStatus(node_executions', p) = "completed"]_vars

\* C10: completed_nodes + failed_nodes never exceeds total_nodes.
C10_CountersWithinTotal ==
    Exists => Execution.completed_nodes + Execution.failed_nodes <= Execution.total_nodes

\* ------------------------------------------- counters, failures, retries
TerminalStatuses == {"completed", "failed", "cancelled"}

ChildrenIn(S) == {i \in DOMAIN node_executions : node_executions[i].status \in S}

\* the step in which the work of w's node raises
NodeRaises(w) ==
    /\ workers[w].pc = "node_run"
    /\ nodeFailures' = nodeFailures + 1
    /\ workers'[w] # workers[w]

\* the row of the node w is at, before and after the step
NodeRow(w) == node_executions[NodeIndex(node_executions, CurrentNode(w))]

NodeRowAfter(w) == node_executions'[NodeIndex(node_executions, CurrentNode(w))]

IsPrefix(s, t) == Len(s) <= Len(t) /\ \A i \in DOMAIN s : s[i] = t[i]

\* C11: a completed execution has failed_nodes = 0 and completed_nodes =
\* total_nodes.
C11_CompletedMeansAllCompleted ==
    (Exists /\ Execution.status = "completed") =>
        /\ Execution.failed_nodes = 0
        /\ Execution.completed_nodes = Execution.total_nodes

\* C12: in a terminal state the counters and the skipped and cancelled
\* children add up to total_nodes, and no child is pending or running.
C12_TerminalAccounting ==
    (Exists /\ Execution.status \in TerminalStatuses) =>
        /\ Execution.completed_nodes + Execution.failed_nodes
             + Cardinality(ChildrenIn({"skipped"})) + Cardinality(ChildrenIn({"cancelled"}))
           = Execution.total_nodes
        /\ ChildrenIn({"pending", "running"}) = {}

\* C13: when a node's work raises inside a run of execute_workflow, the node
\* becomes failed and failed_nodes grows by exactly 1; the run then starts no
\* other node, sets the parent failed with the node's error as error_message,
\* publishes execution_update(failed) last and hands the error to the task
\* (which schedules its retry while it has retries left).
C13_NodeFailureFailsRun ==
    [][\A w \in Workers :
         /\ (NodeRaises(w) /\ DrivesWorkflow(w)) =>
               /\ NodeRowAfter(w).status = "failed"
               /\ workflow_executions'[1].failed_nodes = Execution.failed_nodes + 1
               /\ workers'[w].pc = "fail"
         /\ (workers[w].pc = "fail" /\ workers'[w] # workers[w]) =>
               /\ workers'[w].pc = "idle"
               /\ workflow_executions'[1].status = "failed"
               /\ workflow_executions'[1].error_message = workers[w].exc
               /\ lastExecEvent' = "failed"
               /\ UNCHANGED node_executions
               /\ (/\ workers[w].job.kind = "execute_workflow"
                   /\ workers[w].job.retries < WorkflowTaskMaxRetries)
                  => queue'[ExecuteWorkflowJob(workers[w].job.retries + 1)]
                       = queue[ExecuteWorkflowJob(workers[w].job.retries + 1)] + 1]_vars

\* C14: when a node's work raises a transient error inside a run while the
\* node's retry_count is below its max_retries, the node goes back to pending
\* with retry_count + 1, the run goes on, and the parent does not become
\* failed.
C14_NodeRetriedInsideRun ==
    [][\A w \in Workers :
         (/\ NodeRaises(w)
          /\ DrivesWorkflow(w)
          /\ NodeRow(w).retry_count < NodeMaxRetries)
         => /\ NodeRowAfter(w).status = "pending"
            /\ NodeRowAfter(w).retry_count = NodeRow(w).retry_count + 1
            /\ workers'[w].pc # "fail"
            /\ workflow_executions'[1].status # "failed"]_vars

\* C15: retry_workflow_execution, when the execution is failed with
\* retry_count < max_retries, sets pending, adds exactly 1 to retry_count,
\* clears error_message and keeps the stored execution_log as a prefix of the
\* new one; in every other case it raises and no row changes.
C15_RetryResetsOrRaises ==
    [][\A w \in Workers :
         (workers[w].pc = "retry_reset" /\ workers'[w] # workers[w]) =>
            IF can_retry(Execution, Execution.max_retries)
            THEN /\ workflow_executions'[1].status = "pending"
                 /\ workflow_executions'[1].retry_count = Execution.retry_count + 1
                 /\ workflow_executions'[1].error_message = "none"
                 /\ IsPrefix(Execution.execution_log, workflow_executions'[1].execution_log)
                 /\ workers'[w].pc = "start"
            ELSE /\ workers'[w].pc = "idle"
                 /\ UNCHANGED dbVars]_vars

\* C16: a failed execution leaves failed only to pending, with retry_count
\* incremented, whichever job runs it again.
C16_RerunGoesThroughPending ==
    [][(Exists /\ Execution.status = "failed"
          /\ workflow_executions'[1].status # "failed") =>
         /\ workflow_executions'[1].status = "pending"
         /\ workflow_executions'[1].retry_count = Execution.retry_count + 1]_vars

\* C17: the stored max_retries is a value a caller sent, and an execution
\* created with max_retries = 0 can never be retried.
C17_MaxRetriesStoredAsGiven ==
    Exists =>
        /\ Execution.max_retries \in requests
        /\ requests = {0} => ~can_retry(Execution, Execution.max_retries)

\* the transition table of a node's status
NodeLegalTransitions ==
    {<<"pending", "running">>, <<"pending", "cancelled">>,
     <<"running", "completed">>, <<"running", "failed">>,
     <<"running", "cancelled">>, <<"failed", "pending">>}

\* C18: every change of a NodeExecution's status is one of the six
\* transitions of the table; completed, cancelled and skipped are never left.
C18_NodeLegalTransitions ==
    [][\A i \in DOMAIN node_executions :
         \/ node_executions'[i].status = node_executions[i].status
         \/ <<node_executions[i].status, node_executions'[i].status>>
              \in NodeLegalTransitions]_vars

\* C19: completed_nodes and failed_nodes of the execution never decrease.
C19_CountersMonotone ==
    [][Exists =>
         /\ workflow_executions'[1].completed_nodes >= Execution.completed_nodes
         /\ workflow_executions'[1].failed_nodes >= Execution.failed_nodes]_vars

SameLevel(m, n) ==
    \E i \in DOMAIN topological_sort(wf.nodes, wf.conns).levels :
        {m, n} \subseteq Range(topological_sort(wf.nodes, wf.conns).levels[i])

\* C22: the nodes of a level are dispatched together: when a run sets a node
\* to running, no node of the same level has already been run to its end by
\* that run (no node waits for a sibling).
C22_SiblingsDoNotWait ==
    [][\A w \in Workers :
         (/\ DrivesWorkflow(w)
          /\ workers[w].pc = "node_start"
          /\ workers'[w].pc = "node_run")
         => \A j \in 1..(workers[w].idx - 1) :
               ~SameLevel(workers[w].order[j], CurrentNode(w))]_vars


\* the node ids of the plan, in the order execute_workflow visits them
PlanOrder ==
    LET order == get_execution_order(topological_sort(wf.nodes, wf.conns).levels)
    IN  [i \in DOMAIN order |-> order[i].node_id]

\* a first, undisturbed run of a linear workflow: one node per level, no node
\* raised, nothing was delivered again, retried or cancelled
CleanLinearRun ==
    /\ Exists
    /\ Len(topological_sort(wf.nodes, wf.conns).levels) = Len(wf.nodes)
    /\ nodeFailures = 0 /\ extraJobs = 0 /\ cancels = 0

\* the message the documented sequence puts after message ev
EventAfter(ev) ==
    LET n == Len(PlanOrder)
        k == IF ev.node_id \in Range(PlanOrder)
             THEN CHOOSE i \in DOMAIN PlanOrder : PlanOrder[i] = ev.node_id ELSE 0
    IN  IF ev.type = "none"
        THEN [ExecutionUpdate(Execution, 0) EXCEPT !.status = "running",
                                                   !.completed_nodes = 0]
        ELSE IF ev.type = "execution_update" /\ ev.status = "running"
                /\ ev.completed_nodes < n
        THEN NodeUpdate(PlanOrder[ev.completed_nodes + 1], "running")
        ELSE IF ev.type = "node_update" /\ ev.status = "running"
        THEN NodeUpdate(ev.node_id, "completed")
        ELSE IF ev.type = "node_update" /\ ev.status = "completed" /\ k < n
        THEN [ExecutionUpdate(Execution, (k * 100) \div n) EXCEPT
                 !.status = "running", !.completed_nodes = k]
        ELSE IF ev.type = "node_update" /\ ev.status = "completed" /\ k = n
        THEN [ExecutionUpdate(Execution, 100) EXCEPT
                 !.status = "completed", !.completed_nodes = n]
        ELSE NoEvent

\* C23: in a run of a linear workflow whose nodes all succeed, the messages
\* published to room execution:<id> follow the documented sequence: running
\* at 0, then per node its running and completed updates followed by a
\* running progress update, except that the last node's completed update is
\* followed directly by the completed update at 100, nothing in between
C23_EventsInDocumentedOrder ==
    [][(/\ CleanLinearRun
        /\ nodeFailures' = 0 /\ extraJobs' = 0 /\ cancels' = 0
        /\ lastEvent' # lastEvent)
         => lastEvent' = EventAfter(lastEvent)]_vars

\* C24: for the empty workflow (no nodes, no connections) the resolver returns
\* no levels without an error and create_execution succeeds with a row whose
\* total_nodes is 0 (the run then has nothing to execute)
C24_EmptyWorkflowAccepted ==
    (wf.nodes = <<>> /\ wf.conns = <<>>) =>
        /\ sortResult # NotRun => sortResult.ok /\ sortResult.levels = <<>>
        /\ createResult # NoResult =>
              createResult.ok /\ Exists /\ Execution.total_nodes = 0

\* the parents of v: the sources of the connections that end in v
Parents(w, v) == {e[1] : e \in {d \in Edges(w) : d[2] = v}}

HasSelfLoop(w) == \E i \in DOMAIN w.conns : w.conns[i].source = w.conns[i].target

\* C27: create_execution rejects every workflow whose connections hold a
\* self-loop or the same (source, target) pair more than once, and creates no
\* execution for it
C27_SelfLoopsAndMultiEdgesRejected ==
    (createResult # NoResult /\ (HasSelfLoop(wf) \/ HasRepeatedEdge(wf))) =>
        ~createResult.ok /\ workflow_executions = <<>> /\ node_executions = <<>>

\* C25: a request of get_execution, cancel_execution, the node list, the node
\* detail or the logs endpoint by a caller who does not own the execution
\* gets exactly the response the same request gets for an id no execution
\* has, a 404, and changes no row, queues nothing and publishes nothing
C25_ForeignLooksMissing ==
    [][(apiCalls' = apiCalls + 1 /\ request'.user # WorkflowOwner) =>
         /\ response' = Respond(request'.endpoint, request'.user,
                                UnknownExecutionId, request'.node_execution_id)
         /\ response'.status_code = 404
         /\ dbVars' = dbVars
         /\ queue' = queue
         /\ lastEvent' = lastEvent]_vars

\* another user asked for a node of the owner's running execution
C25_Witness ==
    /\ Exists /\ Execution.status = "running" /\ Execution.user_id = WorkflowOwner
    /\ request.user # WorkflowOwner
    /\ request.execution_id = TheExecutionId
    /\ request.endpoint = "get_node_execution" /\ request.node_execution_id = 1
    /\ response.status_code = 404

\* C28: every connection is sent the messages published to its rooms in the
\* order they were published (the order of the broadcast_to_room calls), also
\* while two broadcasts are in flight
C28_PublicationOrderPerConnection ==
    \A c \in ConnectionIds :
        \A i, j \in DOMAIN sockets[c].sent :
            (/\ i < j
             /\ sockets[c].sent[i].type = "broadcast"
             /\ sockets[c].sent[j].type = "broadcast")
            => sockets[c].sent[i].seq < sockets[c].sent[j].seq

\* C29: once disconnect has closed a connection it is in no room's subscriber
\* set, in no user's connection set and not in active_connections, nothing
\* more is sent to it, and a disconnect of a connection id that is not
\* active changes nothing
C29_DisconnectTearsDown ==
    [][/\ \A c \in ConnectionIds :
            sockets'[c].closed =>
               /\ c \notin manager'.active_connections
               /\ \A r \in RoomIds : c \notin manager'.room_subscriptions[r]
               /\ \A u \in Users : c \notin manager'.user_connections[u]
       /\ \A c \in ConnectionIds :
            sockets[c].closed => sockets'[c].sent = sockets[c].sent
       /\ \A c \in ConnectionIds :
            (/\ handlers[c].pc = "loop" /\ handlers'[c].pc = "done"
             /\ c \notin manager.active_connections)
            => manager' = manager /\ sockets' = sockets]_vars

\* c1 subscribed to execution:E1 and was disconnected; a broadcast to that
\* room has finished, c2 got it and c1 got none
C29_Witness ==
    /\ sockets["c1"].closed
    /\ handlers["c1"].pc = "done"
    /\ \E k \in DOMAIN sockets["c1"].sent :
          sockets["c1"].sent[k] = Message("subscribed", <<"execution", "E1">>, 0)
    /\ \A k \in DOMAIN sockets["c1"].sent : sockets["c1"].sent[k].type # "broadcast"
    /\ \E i \in DOMAIN inflight :
          /\ inflight[i].room_id = <<"execution", "E1">> /\ inflight[i].todo = <<>>
          /\ \E k \in DOMAIN sockets["c2"].sent :
                sockets["c2"].sent[k] = Message("broadcast", <<"execution", "E1">>, i)

\* C30: a connection is a subscriber of user:<X> only if its authenticated
\* user is X, of execution:<E> only if that user owns E and of workflow:<W>
\* only if that user owns W, and of no other room
C30_SubscribersAreEntitled ==
    \A c \in ConnectionIds : \A r \in RoomIds :
        c \in manager.room_subscriptions[r] =>
            /\ Len(r) = 2
            /\ r[1] \in {"user", "execution", "workflow"}
            /\ r[1] = "user" => r[2] = handlers[c].user
            /\ r[1] = "execution" =>
                  r[2] \in DOMAIN ExecutionRows /\ ExecutionRows[r[2]].user_id = handlers[c].user
            /\ r[1] = "workflow" =>
                  r[2] \in DOMAIN WorkflowRows /\ WorkflowRows[r[2]].user_id = handlers[c].user

\* the step in which the task run by worker w ends with an exception
TaskRaised(w) ==
    /\ workers'[w].pc = "idle"
    /\ \/ workers[w].job.kind = "execute_workflow" /\ workers[w].pc = "fail"
       \/ /\ workers[w].job.kind = "execute_node"
          /\ workers[w].pc = "node_run"
          /\ nodeFailures' = nodeFailures + 1

\* the broker holds nothing and no worker runs a task
Quiet ==
    /\ \A j \in Jobs : queue[j] = 0
    /\ \A w \in Workers : workers[w].pc \in {"idle", "off"}

\* the retries a message of each retrying task may get
StatedBudget(j) ==
    IF j.kind = "execute_workflow" THEN 2 ELSE IF j.kind = "execute_node" THEN 3 ELSE 0

HeadersWithinBudget ==
    /\ \A j \in Jobs : queue[j] > 0 => j.retries <= StatedBudget(j)
    /\ \A w \in Workers : workers[w].pc \notin {"idle", "off"} =>
            workers[w].job.retries <= StatedBudget(workers[w].job)

RetriedWithinBudget ==
    \A w \in Workers : TaskRaised(w) =>
        LET j == workers[w].job
        IN  IF j.retries < StatedBudget(j)
            THEN queue' = [queue EXCEPT ![Retry(j)] = @ + 1]
            ELSE /\ queue' = queue
                 /\ j.kind = "execute_workflow" =>
                        workflow_executions'[1].status = "failed"

\* C31: an execute_workflow message is retried at most 2 times and an
\* execute_node message at most 3 times: a raising task sends its message again
\* with the retries header one higher while the header is below the budget and
\* sends nothing once it has reached it, no message carries a header above
\* its budget, when the last attempt of an execute_workflow message raises the
\* execution is failed, and with workers that keep running the broker
\* eventually holds nothing and every worker is idle for good
C31_RetryBudget ==
    /\ [][RetriedWithinBudget]_vars
    /\ []HeadersWithinBudget
    /\ <>[]Quiet

\* the three attempts of the execute_workflow message have all raised
C31_Witness ==
    /\ Quiet
    /\ workflow_executions # <<>>
    /\ workflow_executions[1].status = "failed"
    /\ nodeFailures = WorkflowTaskMaxRetries + 1
    /\ extraJobs = 0
    /\ cancels = 0

\* C32: what list_executions returns are rows of the table, each owned by
\* the calling user and matching the workflow_id and the status that were
\* supplied, no row twice, in descending order of creation time
C32_ListIsOwnFilteredOrdered ==
    listed.called =>
        /\ \A k \in DOMAIN listed.items :
              /\ listed.items[k] \in Range(execution_table)
              /\ listed.items[k].user_id = listed.user_id
              /\ listed.workflow_id # "none" =>
                    listed.items[k].workflow_id = listed.workflow_id
              /\ listed.status # "none" => listed.items[k].status = listed.status
        /\ \A i, j \in DOMAIN listed.items :
              i < j => /\ listed.items[i].created_at >= listed.items[j].created_at
                       /\ listed.items[i].id # listed.items[j].id

\* a filtered listing of two rows created at different times, from a table
\* that also holds a row of another user
C32_Witness ==
    /\ listed.called
    /\ listed.status # "none"
    /\ Len(listed.items) = 2
    /\ listed.items[1].created_at > listed.items[2].created_at
    /\ \E i \in DOMAIN execution_table : execution_table[i].user_id # listed.user_id

\* C33: every NodeExecution row has execution_order equal to the (zero-based)
\* index of the level its node has in the plan, so nodes of one level have
\* equal execution_order
C33_ExecutionOrderIsLevel ==
    \A k \in DOMAIN node_executions :
        \E i \in LevelsOf(topological_sort(wf.nodes, wf.conns).levels,
                          node_executions[k].node_id) :
            node_executions[k].execution_order = i - 1

\* C34: retry_node_execution and execute_node called with the user_id of a
\* user who does not own the NodeExecution end at once as not found (the
\* task raises) and change neither a NodeExecution row nor the execution row
C34_ForeignNodeCallsChangeNothing ==
    [][\A w \in Workers :
         (/\ workers[w].job.kind \in {"retry_node", "execute_node"}
          /\ workers[w].job.user # WorkflowOwner
          /\ workers[w].pc \notin {"idle", "off"}
          /\ workers'[w] # workers[w])
         => /\ workers'[w].pc = "idle"
            /\ node_executions' = node_executions
            /\ workflow_executions' = workflow_executions]_vars

\* C35: every execution that was created is eventually handed to a worker,
\* also one created with scheduled_at: it leaves status pending, unless it is
\* cancelled first
C35_CreatedLeavesPending ==
    Exists ~> ((Exists /\ Execution.status # "pending") \/ cancels > 0)

\* the output_data the table holds for each of the given parents
PersistedOutputs(rows, parent_ids) ==
    [p \in Range(parent_ids) |-> rows[NodeIndex(rows, p)].output_data]

\* C36: the input map M a node runs with gives, for each of its parents, the
\* output_data the table holds for that parent at that time (no key for a
\* node without parents), and when the node completes the output_data that
\* is stored for it is {status: "completed", input: M}
C36_OutputCarriesParentOutputs ==
    [][\A w \in Workers :
         LET k == NodeIndex(node_executions, CurrentNode(w)) IN
         /\ (workers[w].pc = "node_start" /\ workers'[w].pc = "node_run")
            => workers'[w].input_data =
                 PersistedOutputs(node_executions, node_executions[k].parent_node_ids)
         /\ (/\ workers[w].pc = "node_run"
             /\ workers'[w].pc \in {"progress", "idle"}
             /\ nodeFailures' = nodeFailures
             /\ extraJobs' = extraJobs)
            => node_executions'[k].output_data =
                 [status |-> "completed", input |-> workers[w].input_data]]_vars

\* connection c alone is torn down: it leaves active_connections, every room
\* set and every user set, and nothing else changes in the manager
AloneDisconnected(c) ==
    /\ manager'.active_connections = manager.active_connections \ {c}
    /\ \A r \in RoomIds :
          manager'.room_subscriptions[r] = manager.room_subscriptions[r] \ {c}
    /\ \A u \in Users :
          manager'.user_connections[u] = manager.user_connections[u] \ {c}
    /\ \A d \in ConnectionIds \ {c} :
          manager'.connection_metadata[d] = manager.connection_metadata[d]

\* the turn of connection c in a broadcast of msg: an active c gets msg, or
\* its send fails and it alone is disconnected; an inactive c gets nothing;
\* no other connection is touched
Turn(c, msg) ==
    /\ \A d \in ConnectionIds \ {c} : sockets'[d] = sockets[d]
    /\ IF c \in manager.active_connections
       THEN \/ sockets'[c].sent = Append(sockets[c].sent, msg) /\ manager' = manager
            \/ sockets'[c].sent = sockets[c].sent /\ AloneDisconnected(c)
       ELSE manager' = manager /\ sockets' = sockets

\* C37: a broadcast takes as its snapshot exactly the connections subscribed
\* to the room when it starts and gives each of them one turn: a connection
\* that is still active at its turn is sent the message; if that send fails,
\* that connection alone is disconnected (it leaves every room and user set),
\* and the rest of the snapshot stays to be served
C37_BroadcastServesSnapshot ==
    [][/\ Len(inflight') = Len(inflight) + 1 =>
            LET b    == inflight'[Len(inflight')]
                subs == manager.room_subscriptions[b.room_id]
            IN  IF subs = {}
                THEN b.todo = <<>> /\ manager' = manager /\ sockets' = sockets
                ELSE \E c \in subs :
                        /\ Range(b.todo) = subs \ {c}
                        /\ Len(b.todo) = Cardinality(subs) - 1
                        /\ Turn(c, Message("broadcast", b.room_id, Len(inflight')))
       /\ \A i \in DOMAIN inflight :
            (Len(inflight') = Len(inflight) /\ inflight'[i] # inflight[i]) =>
                /\ inflight'[i].todo = Tail(inflight[i].todo)
                /\ Turn(Head(inflight[i].todo),
                        Message("broadcast", inflight[i].room_id, i))]_vars

\* the first broadcast is over: the send to c1 failed and c1 is gone, and c2,
\* which came after it in the snapshot, has the message
C37_Witness ==
    /\ inflight # <<>>
    /\ inflight[1].todo = <<>>
    /\ "c1" \notin manager.active_connections
    /\ Message("subscribed", inflight[1].room_id, 0) \in Range(sockets["c1"].sent)
    /\ Message("broadcast", inflight[1].room_id, 1) \notin Range(sockets["c1"].sent)
    /\ Message("broadcast", inflight[1].room_id, 1) \in Range(sockets["c2"].sent)
    /\ "c2" \in manager.active_connections

\* number of NodeExecution rows in status st
CountStatus(st) ==
    Cardinality({k \in DOMAIN node_executions : node_executions[k].status = st})

\* C38: whenever no task is waiting or running, failed_nodes is the number of
\* NodeExecutions in status failed and completed_nodes the number in status
\* completed, also after node retries, workflow retries and runs of a message
\* that was delivered again
C38_CountersMatchRows ==
    (Exists /\ Quiescent) =>
        /\ Execution.failed_nodes = CountStatus("failed")
        /\ Execution.completed_nodes = CountStatus("completed")

\* C39: the maps of the ConnectionManager agree: a connection id is in the
\* set of a room exactly if the room is in the subscriptions of its metadata,
\* every id in a room set or a user set is an active connection, and no
\* room key and no user key is held with an empty set
C39_ManagerMapsAgree ==
    /\ \A c \in ConnectionIds, r \in RoomIds :
          c \in manager.room_subscriptions[r]
            <=> r \in manager.connection_metadata[c].subscriptions
    /\ \A r \in RoomIds : manager.room_subscriptions[r] \subseteq manager.active_connections
    /\ \A u \in Users : manager.user_connections[u] \subseteq manager.active_connections
    /\ \A r \in RoomIds : r \in manager.room_keys <=> manager.room_subscriptions[r] # {}
    /\ \A u \in Users : u \in manager.user_keys <=> manager.user_connections[u] # {}

\* c2 had subscribed to the room of execution E1 and is gone after a failed
\* send or the end of its handler, while c1 is still subscribed to that room
C39_Witness ==
    /\ "c1" \in manager.room_subscriptions[<<"execution", "E1">>]
    /\ "c2" \notin manager.active_connections
    /\ sockets["c2"].closed
    /\ Message("subscribed", <<"execution", "E1">>, 0) \in Range(sockets["c2"].sent)

\* C40: a connection is sent a message broadcast to a room only while it is
\* subscribed to that room: once unsubscribe_from_room has removed it, no
\* broadcast to the room reaches it, not even one that had already taken its
\* copy of the subscribers
C40_NoBroadcastAfterUnsubscribe ==
    [][\A c \in ConnectionIds :
         (/\ Len(sockets'[c].sent) = Len(sockets[c].sent) + 1
          /\ sockets'[c].sent[Len(sockets'[c].sent)].type = "broadcast")
         => c \in manager.room_subscriptions[
                    sockets'[c].sent[Len(sockets'[c].sent)].room_id]]_vars

========================================================================
